---- MODULE Spec2Model ----
(***************************************************************************)
(* A model of jute's notebook document codec (backend/notebook.rs), of the *)
(* text canonicalisation MultilineString::normalize, and of the remote     *)
(* Jupyter session client (backend/remote.rs).                             *)
(*                                                                         *)
(* Three specifications share the variables:                               *)
(*   SpecNormalize  MultilineString::normalize on bounded strings          *)
(*   SpecNotebook   decode / encode of notebook documents (serde derive)   *)
(*   Spec           JupyterClient and RemoteKernel against a server        *)
(***************************************************************************)
EXTENDS Integers, Sequences, FiniteSets, TLC

VARIABLES
    ms,        \* normalize: the MultilineString normalize is called on
    norm,      \* normalize: <<>> or <<normalize(ms)>>
    norm2,     \* normalize: <<>> or <<normalize(normalize(ms))>>
    asString,  \* normalize: <<>> or <<String::from(ms)>>
    json,      \* notebook: the JSON document read from disk
    nb,        \* notebook: <<>> or <<the result of decoding json>>
    out,       \* notebook: <<>> or <<the JSON encoding of the decoded value>>
    nb2,       \* notebook: <<>> or <<the result of decoding out>>
    client,    \* remote: the JupyterClient (server_url, token)
    server,    \* remote: the ids of the kernels alive on the server
    requests,  \* remote: the HTTP requests of the call made last, in order
    opens,     \* remote: the channel-open attempts of that call, in order
    task,      \* remote: the RemoteKernel::start call in flight
    handles,   \* remote: the RemoteKernel handles the caller holds
    conns,     \* remote: the state of every opened channel
    last,      \* remote: the outcome of the last completed call
    kernels,   \* registry: State.kernels, the ids it holds a kernel for
    started,   \* registry: the number of kernels start_kernel has started
    stops,     \* registry: the stop_kernel call of each caller
    kills      \* registry: how often kill was called on each kernel

vars == <<ms, norm, norm2, asString, json, nb, out, nb2,
          client, server, requests, opens, task, handles, conns, last,
          kernels, started, stops, kills>>

normVars == <<ms, norm, norm2, asString>>
nbVars == <<json, nb, out, nb2>>
remoteVars == <<client, server, requests, opens, task, handles, conns, last>>
registryVars == <<kernels, started, stops, kills>>

(***************************************************************************)
(* Option<T>: None is <<>>, Some(x) is <<x>>.                              *)
(***************************************************************************)
None == <<>>

Some(x) == <<x>>

(***************************************************************************)
(* Strings of the normalize model are sequences of characters.             *)
(***************************************************************************)
MaxStrLen == 4
MaxFragLen == 2
MaxFrags == 2

NL == "\n"

Chars == {"a", "b", NL}

StrUpTo(n) == UNION {[1..k -> Chars] : k \in 0..n}

SeqUpTo(S, n) == UNION {[1..k -> S] : k \in 0..n}

Single(s) == [tag |-> "Single", s |-> s]

Multi(v) == [tag |-> "Multi", v |-> v]

MultilineStrings ==
    {Single(s) : s \in StrUpTo(MaxStrLen)}
        \cup {Multi(v) : v \in SeqUpTo(StrUpTo(MaxFragLen), MaxFrags)}

\* Vec<String>::join with a separator
RECURSIVE join(_, _)
join(v, sep) ==
    IF v = <<>> THEN <<>>
    ELSE IF Len(v) = 1 THEN v[1]
    ELSE v[1] \o sep \o join(Tail(v), sep)

\* str::find('\n'): the 0-based index of the first newline, or None
find(s) ==
    IF \E i \in 1..Len(s) : s[i] = NL
    THEN Some((CHOOSE i \in 1..Len(s) : s[i] = NL /\ \A j \in 1..(i - 1) : s[j] # NL) - 1)
    ELSE None

\* the break after the last newline of remaining:
\* remaining.rfind('\n').map_or(remaining.len(), |i| i + 1)
next_break_last(remaining) ==
    IF \E i \in 1..Len(remaining) : remaining[i] = NL
    THEN CHOOSE i \in 1..Len(remaining) :
            remaining[i] = NL /\ \A j \in (i + 1)..Len(remaining) : remaining[j] # NL
    ELSE Len(remaining)

\* remaining.find('\n').map_or(remaining.len(), |i| i + 1)
next_break(remaining) ==
    IF find(remaining) = None THEN Len(remaining) ELSE find(remaining)[1] + 1

\* the while loop of normalize: lines.push(remaining[..next_break]);
\* remaining = &remaining[next_break..]
RECURSIVE split_lines(_, _)
split_lines(remaining, lines) ==
    IF remaining = <<>> THEN lines
    ELSE LET nbk == next_break(remaining)
         IN split_lines(SubSeq(remaining, nbk + 1, Len(remaining)),
                        Append(lines, SubSeq(remaining, 1, nbk)))

\* the match at the head of normalize, joining the fragments with newlines
value_joined_with_newlines(self) ==
    IF self.tag = "Single" THEN self.s ELSE join(self.v, <<NL>>)

\* the match at the head of normalize
value(self) ==
    IF self.tag = "Single" THEN self.s ELSE join(self.v, <<>>)

normalize(self) == Multi(split_lines(value(self), <<>>))

\* impl From<MultilineString> for String
into_string(m) ==
    IF m.tag = "Single" THEN m.s
    ELSE IF Len(m.v) = 1 THEN m.v[1]
    ELSE join(m.v, <<>>)

NormalizeIdle ==
    /\ ms = Single(<<>>)
    /\ norm = None
    /\ norm2 = None
    /\ asString = None

\* a caller normalizes a MultilineString
Normalize ==
    /\ norm = None
    /\ norm' = Some(normalize(ms))
    /\ UNCHANGED <<ms, norm2, asString, nbVars, remoteVars, registryVars>>

\* a caller normalizes the value normalize returned
NormalizeAgain ==
    /\ norm # None
    /\ norm2 = None
    /\ norm2' = Some(normalize(norm[1]))
    /\ UNCHANGED <<ms, norm, asString, nbVars, remoteVars, registryVars>>

\* a caller converts the MultilineString into a String
IntoString ==
    /\ asString = None
    /\ asString' = Some(into_string(ms))
    /\ UNCHANGED <<ms, norm, norm2, nbVars, remoteVars, registryVars>>

(***************************************************************************)
(* Properties of normalize.                                                *)
(***************************************************************************)
\* the fragments of a MultilineString, in order
Fragments(m) == IF m.tag = "Single" THEN <<m.s>> ELSE m.v

\* the concatenation of the first n fragments of v
RECURSIVE ConcatFirst(_, _)
ConcatFirst(v, n) ==
    IF n = 0 THEN <<>> ELSE ConcatFirst(v, n - 1) \o v[n]

\* the logical string of a MultilineString
Logical(m) == ConcatFirst(Fragments(m), Len(Fragments(m)))

HasNewline(s) == \E i \in 1..Len(s) : s[i] = NL

\* C5: normalize(s) is the Multi form whose fragments concatenate to the
\* concatenation of s's fragments; no fragment is empty, every fragment but
\* possibly the last ends with a newline, and no fragment holds a newline
\* anywhere but at its last position; an empty logical string yields the
\* empty sequence and a non-empty string without newline yields one fragment.
C5_NormalizeSplitsAfterNewlines ==
    norm # None =>
        LET r == norm[1]
        IN /\ r.tag = "Multi"
           /\ Logical(r) = Logical(ms)
           /\ \A i \in 1..Len(r.v) :
                 /\ r.v[i] # <<>>
                 /\ i < Len(r.v) => r.v[i][Len(r.v[i])] = NL
                 /\ \A j \in 1..(Len(r.v[i]) - 1) : r.v[i][j] # NL
           /\ Logical(ms) = <<>> => r.v = <<>>
           /\ (Logical(ms) # <<>> /\ ~HasNewline(Logical(ms))) => r.v = <<Logical(ms)>>

\* a Multi whose fragments do not end at the newlines has been normalized
\* into several lines
C5_Witness ==
    /\ norm # None
    /\ ms.tag = "Multi"
    /\ Len(ms.v) = 2
    /\ ms.v[1] # <<>>
    /\ ~HasNewline(ms.v[1])
    /\ HasNewline(ms.v[2])
    /\ Len(norm[1].v) >= 2

\* C6: normalize is idempotent on its own output:
\* normalize(normalize(s)) = normalize(s).
C6_NormalizeIdempotent ==
    norm2 # None => norm2[1] = norm[1]

\* a string of several lines has been normalized twice
C6_Witness ==
    /\ norm2 # None
    /\ Len(norm[1].v) >= 2
    /\ Len(norm2[1].v) >= 2

(***************************************************************************)
(* JSON.  A document is a tree of tagged values; an object is a function   *)
(* from its keys to values.  serde_json::Value is this tree itself.        *)
(***************************************************************************)
JNull == [t |-> "null"]

JStr(s) == [t |-> "str", s |-> s]

JNum(n) == [t |-> "num", n |-> n]

JArr(a) == [t |-> "arr", a |-> a]

JObj(o) == [t |-> "obj", o |-> o]

EmptyObj == [k \in {} |-> JNull]

\* the entries of f and of g in one object
Merge(f, g) ==
    [k \in DOMAIN f \cup DOMAIN g |-> IF k \in DOMAIN f THEN f[k] ELSE g[k]]

Ok(x) == [ok |-> TRUE, val |-> x]

Err(e) == [ok |-> FALSE, err |-> e]

(***************************************************************************)
(* Deserialize, as serde derives it for the types of notebook.rs.          *)
(***************************************************************************)
U8_MAX == 255

de_u8(j) ==
    IF j.t = "num" /\ j.n >= 0 /\ j.n <= U8_MAX THEN Ok(j.n)
    ELSE Err(<<"invalid value", "u8">>)

\* u32: the numbers of the documents are all below 2^32, so that a number
\* fits unless it is negative
de_u32(j) ==
    IF j.t = "num" /\ j.n >= 0 THEN Ok(j.n)
    ELSE Err(<<"invalid value", "u32">>)

de_String(j) ==
    IF j.t = "str" THEN Ok(j.s) ELSE Err(<<"invalid type", "string">>)

\* the elements of a sequence, or the first error among them
vec_result(rs) ==
    IF \E i \in DOMAIN rs : ~rs[i].ok
    THEN rs[CHOOSE i \in DOMAIN rs : ~rs[i].ok /\ \A k \in 1..(i - 1) : rs[k].ok]
    ELSE Ok([i \in DOMAIN rs |-> rs[i].val])

\* Vec<String>
de_Vec_String(j) ==
    IF j.t # "arr" THEN Err(<<"invalid type", "sequence">>)
    ELSE vec_result([i \in DOMAIN j.a |-> de_String(j.a[i])])

\* Map<String, Value> and BTreeMap<String, Value>: the entries as they are
de_Map(j) ==
    IF j.t = "obj" THEN Ok(j.o) ELSE Err(<<"invalid type", "map">>)

some_result(r) == IF r.ok THEN Ok(Some(r.val)) ELSE r

\* the value of key k of an object; a decoder is not asked about a missing
\* key (de_field, de_opt_field), which stands here as null
at(o, k) == IF k \in DOMAIN o THEN o[k] ELSE JNull

\* a field of type T, r the value of at(o, k) decoded as T: a missing key is
\* an error
de_field(o, k, r) ==
    IF k \in DOMAIN o THEN r ELSE Err(<<"missing field", k>>)

\* a field of type Option<T>, r the value of at(o, k) decoded as T: a missing
\* key is None, and so is null
de_opt_field(o, k, r) ==
    IF at(o, k).t = "null" THEN Ok(None) ELSE some_result(r)

\* #[serde(flatten)] other: with every key of the object
collect_all(o, fields) == o

\* #[serde(flatten)] other: Map<String, Value>: the entries whose key is not
\* the name of a field of the struct
collect(o, fields) == [k \in DOMAIN o \ fields |-> o[k]]

\* the struct of the fields' values, or an error of one of the fields
struct_result(rs) ==
    IF \E k \in DOMAIN rs : ~rs[k].ok
    THEN rs[CHOOSE k \in DOMAIN rs : ~rs[k].ok]
    ELSE Ok([k \in DOMAIN rs |-> rs[k].val])

\* a struct with a flattened map: its fields, and the map of the other
\* entries
flatten_result(rs, other) ==
    struct_result(Merge(rs, [other |-> Ok(other)]))

multi_result(r) ==
    IF r.ok THEN Ok(Multi(r.val)) ELSE Err(<<"no variant matched", "MultilineString">>)

\* #[serde(untagged)] enum MultilineString: Single(String), then
\* Multi(Vec<String>)
de_MultilineString(j) ==
    IF j.t = "str" THEN Ok(Single(j.s)) ELSE multi_result(de_Vec_String(j))

\* #[serde(untagged)] enum CodeMirrorMode: String(String), then
\* Object(BTreeMap<String, Value>)
de_CodeMirrorMode(j) ==
    IF j.t = "str" THEN Ok([tag |-> "String", s |-> j.s])
    ELSE IF j.t = "obj" THEN Ok([tag |-> "Object", o |-> j.o])
    ELSE Err(<<"no variant matched", "CodeMirrorMode">>)

fields_KernelSpec == {"name", "display_name"}

de_KernelSpec(j) ==
    IF j.t # "obj" THEN Err(<<"invalid type", "KernelSpec">>)
    ELSE flatten_result([name |-> de_field(j.o, "name", de_String(at(j.o, "name"))),
                         display_name |-> de_field(j.o, "display_name", de_String(at(j.o, "display_name")))],
                        collect(j.o, fields_KernelSpec))

fields_LanguageInfo ==
    {"name", "codemirror_mode", "file_extension", "mimetype", "pygments_lexer"}

de_LanguageInfo(j) ==
    IF j.t # "obj" THEN Err(<<"invalid type", "LanguageInfo">>)
    ELSE flatten_result(
            [name |-> de_field(j.o, "name", de_String(at(j.o, "name"))),
             codemirror_mode |-> de_opt_field(j.o, "codemirror_mode", de_CodeMirrorMode(at(j.o, "codemirror_mode"))),
             file_extension |-> de_opt_field(j.o, "file_extension", de_String(at(j.o, "file_extension"))),
             mimetype |-> de_opt_field(j.o, "mimetype", de_String(at(j.o, "mimetype"))),
             pygments_lexer |-> de_opt_field(j.o, "pygments_lexer", de_String(at(j.o, "pygments_lexer")))],
            collect(j.o, fields_LanguageInfo))

fields_Author == {"name"}

de_Author(j) ==
    IF j.t # "obj" THEN Err(<<"invalid type", "Author">>)
    ELSE flatten_result([name |-> de_opt_field(j.o, "name", de_String(at(j.o, "name")))],
                        collect(j.o, fields_Author))

de_Vec_Author(j) ==
    IF j.t # "arr" THEN Err(<<"invalid type", "sequence">>)
    ELSE vec_result([i \in DOMAIN j.a |-> de_Author(j.a[i])])

fields_NotebookMetadata ==
    {"kernelspec", "language_info", "orig_nbformat", "title", "authors"}

de_NotebookMetadata(j) ==
    IF j.t # "obj" THEN Err(<<"invalid type", "NotebookMetadata">>)
    ELSE flatten_result(
            [kernelspec |-> de_opt_field(j.o, "kernelspec", de_KernelSpec(at(j.o, "kernelspec"))),
             language_info |-> de_opt_field(j.o, "language_info", de_LanguageInfo(at(j.o, "language_info"))),
             orig_nbformat |-> de_opt_field(j.o, "orig_nbformat", de_u8(at(j.o, "orig_nbformat"))),
             title |-> de_opt_field(j.o, "title", de_String(at(j.o, "title"))),
             authors |-> de_opt_field(j.o, "authors", de_Vec_Author(at(j.o, "authors")))],
            collect(j.o, fields_NotebookMetadata))

fields_CellMetadata == {}

de_CellMetadata(j) ==
    IF j.t # "obj" THEN Err(<<"invalid type", "CellMetadata">>)
    ELSE flatten_result(EmptyObj, collect(j.o, fields_CellMetadata))

\* type MimeBundle = BTreeMap<String, Value>
de_MimeBundle(j) == de_Map(j)

\* type CellAttachments = BTreeMap<String, MimeBundle>
de_CellAttachments(j) ==
    IF j.t # "obj" THEN Err(<<"invalid type", "map">>)
    ELSE struct_result([k \in DOMAIN j.o |-> de_MimeBundle(j.o[k])])

fields_RawCell == {"id", "metadata", "source", "attachments"}

\* RawCell and MarkdownCell have the same fields
de_RawCell(j) ==
    IF j.t # "obj" THEN Err(<<"invalid type", "RawCell">>)
    ELSE struct_result(
            [id |-> de_opt_field(j.o, "id", de_String(at(j.o, "id"))),
             metadata |-> de_field(j.o, "metadata", de_CellMetadata(at(j.o, "metadata"))),
             source |-> de_field(j.o, "source", de_MultilineString(at(j.o, "source"))),
             attachments |-> de_opt_field(j.o, "attachments", de_CellAttachments(at(j.o, "attachments")))])

de_MarkdownCell(j) == de_RawCell(j)

fields_OutputExecuteResult == {"execution_count", "data", "metadata"}

de_OutputExecuteResult(j) ==
    IF j.t # "obj" THEN Err(<<"invalid type", "OutputExecuteResult">>)
    ELSE flatten_result(
            [execution_count |-> de_opt_field(j.o, "execution_count", de_u32(at(j.o, "execution_count"))),
             data |-> de_field(j.o, "data", de_MimeBundle(at(j.o, "data"))),
             metadata |-> de_field(j.o, "metadata", de_Map(at(j.o, "metadata")))],
            collect(j.o, fields_OutputExecuteResult))

fields_OutputDisplayData == {"data", "metadata"}

de_OutputDisplayData(j) ==
    IF j.t # "obj" THEN Err(<<"invalid type", "OutputDisplayData">>)
    ELSE flatten_result([data |-> de_field(j.o, "data", de_MimeBundle(at(j.o, "data"))),
                         metadata |-> de_field(j.o, "metadata", de_Map(at(j.o, "metadata")))],
                        collect(j.o, fields_OutputDisplayData))

fields_OutputStream == {"name", "text"}

de_OutputStream(j) ==
    IF j.t # "obj" THEN Err(<<"invalid type", "OutputStream">>)
    ELSE flatten_result([name |-> de_field(j.o, "name", de_String(at(j.o, "name"))),
                         text |-> de_field(j.o, "text", de_MultilineString(at(j.o, "text")))],
                        collect(j.o, fields_OutputStream))

fields_OutputError == {"ename", "evalue", "traceback"}

de_OutputError(j) ==
    IF j.t # "obj" THEN Err(<<"invalid type", "OutputError">>)
    ELSE flatten_result([ename |-> de_field(j.o, "ename", de_String(at(j.o, "ename"))),
                         evalue |-> de_field(j.o, "evalue", de_String(at(j.o, "evalue"))),
                         traceback |-> de_field(j.o, "traceback", de_Vec_String(at(j.o, "traceback")))],
                        collect(j.o, fields_OutputError))

\* #[serde(tag = "output_type", rename_all = "snake_case")]: the variant
\* whose snake_case name is the tag
output_variant(tag) ==
    IF tag = "execute_result" THEN Some("ExecuteResult")
    ELSE IF tag = "display_data" THEN Some("DisplayData")
    ELSE IF tag = "stream" THEN Some("Stream")
    ELSE IF tag = "error" THEN Some("Error")
    ELSE None

\* the tag a variant of Output is serialized with
output_tag(variant) ==
    IF variant = "ExecuteResult" THEN "execute_result"
    ELSE IF variant = "DisplayData" THEN "display_data"
    ELSE IF variant = "Stream" THEN "stream"
    ELSE "error"

\* an internally tagged enum reads the tag and hands the other entries of
\* the object to the variant
without(o, tag_name) == [k \in DOMAIN o \ {tag_name} |-> o[k]]

\* the tag of an internally tagged enum: the string under tag_name
de_tag(j, tag_name) ==
    IF j.t # "obj" THEN Err(<<"invalid type", tag_name>>)
    ELSE IF tag_name \notin DOMAIN j.o THEN Err(<<"missing field", tag_name>>)
    ELSE IF j.o[tag_name].t # "str" THEN Err(<<"invalid type", tag_name>>)
    ELSE Ok(j.o[tag_name].s)

output_result(variant, r) ==
    IF r.ok THEN Ok([variant |-> variant, output |-> r.val]) ELSE r

de_Output_variant(variant, content) ==
    IF variant = None THEN Err(<<"unknown variant", "output_type">>)
    ELSE output_result(variant[1],
            IF variant[1] = "ExecuteResult" THEN de_OutputExecuteResult(content)
            ELSE IF variant[1] = "DisplayData" THEN de_OutputDisplayData(content)
            ELSE IF variant[1] = "Stream" THEN de_OutputStream(content)
            ELSE de_OutputError(content))

de_Output_tagged(j, tag) ==
    IF ~tag.ok THEN tag
    ELSE de_Output_variant(output_variant(tag.val), JObj(without(j.o, "output_type")))

de_Output(j) == de_Output_tagged(j, de_tag(j, "output_type"))

de_Vec_Output(j) ==
    IF j.t # "arr" THEN Err(<<"invalid type", "sequence">>)
    ELSE vec_result([i \in DOMAIN j.a |-> de_Output(j.a[i])])

fields_CodeCell == {"id", "metadata", "source", "execution_count", "outputs"}

de_CodeCell(j) ==
    IF j.t # "obj" THEN Err(<<"invalid type", "CodeCell">>)
    ELSE struct_result(
            [id |-> de_opt_field(j.o, "id", de_String(at(j.o, "id"))),
             metadata |-> de_field(j.o, "metadata", de_CellMetadata(at(j.o, "metadata"))),
             source |-> de_field(j.o, "source", de_MultilineString(at(j.o, "source"))),
             execution_count |-> de_opt_field(j.o, "execution_count", de_u32(at(j.o, "execution_count"))),
             outputs |-> de_field(j.o, "outputs", de_Vec_Output(at(j.o, "outputs")))])

\* a variant of Cell chosen by the tag in lower case
cell_variant_case_folded(tag) ==
    IF tag \in {"raw", "Raw", "RAW"} THEN Some("Raw")
    ELSE IF tag \in {"markdown", "Markdown", "MARKDOWN"} THEN Some("Markdown")
    ELSE IF tag \in {"code", "Code", "CODE"} THEN Some("Code")
    ELSE None

\* #[serde(tag = "cell_type", rename_all = "snake_case")]: the variant whose
\* snake_case name is the tag
cell_variant(tag) ==
    IF tag = "raw" THEN Some("Raw")
    ELSE IF tag = "markdown" THEN Some("Markdown")
    ELSE IF tag = "code" THEN Some("Code")
    ELSE None

\* the tag a variant of Cell is serialized with
cell_tag(variant) ==
    IF variant = "Raw" THEN "raw"
    ELSE IF variant = "Markdown" THEN "markdown"
    ELSE "code"

cell_result(variant, r) ==
    IF r.ok THEN Ok([variant |-> variant, cell |-> r.val]) ELSE r

de_Cell_variant(variant, content) ==
    IF variant = None THEN Err(<<"unknown variant", "cell_type">>)
    ELSE cell_result(variant[1],
            IF variant[1] = "Raw" THEN de_RawCell(content)
            ELSE IF variant[1] = "Markdown" THEN de_MarkdownCell(content)
            ELSE de_CodeCell(content))

de_Cell_tagged(j, tag) ==
    IF ~tag.ok THEN tag
    ELSE de_Cell_variant(cell_variant(tag.val), JObj(without(j.o, "cell_type")))

de_Cell(j) == de_Cell_tagged(j, de_tag(j, "cell_type"))

de_Vec_Cell(j) ==
    IF j.t # "arr" THEN Err(<<"invalid type", "sequence">>)
    ELSE vec_result([i \in DOMAIN j.a |-> de_Cell(j.a[i])])

de_NotebookRoot(j) ==
    IF j.t # "obj" THEN Err(<<"invalid type", "NotebookRoot">>)
    ELSE struct_result(
            [metadata |-> de_field(j.o, "metadata", de_NotebookMetadata(at(j.o, "metadata"))),
             nbformat_minor |-> de_field(j.o, "nbformat_minor", de_u8(at(j.o, "nbformat_minor"))),
             nbformat |-> de_field(j.o, "nbformat", de_u8(at(j.o, "nbformat"))),
             cells |-> de_field(j.o, "cells", de_Vec_Cell(at(j.o, "cells")))])

\* serde_json::from_str::<NotebookRoot> of the text of a JSON document
from_str(doc) == de_NotebookRoot(doc)

(***************************************************************************)
(* Serialize, as serde derives it: every field of a struct is written, an  *)
(* Option that is None as null; the entries of a flattened map follow the  *)
(* fields; an internally tagged enum writes its tag and then the fields of *)
(* the variant.                                                            *)
(***************************************************************************)
\* Option<T>, js the value it holds, if any, serialized
ser_Option(js) == IF DOMAIN js = {} THEN JNull ELSE js[1]

ser_u8(n) == JNum(n)

ser_u32(n) == JNum(n)

ser_String(x) == JStr(x)

ser_Vec_String(v) == JArr([i \in DOMAIN v |-> ser_String(v[i])])

ser_Map(m) == JObj(m)

\* a MultilineString written as an array in both variants
ser_MultilineString_as_array(m) ==
    IF m.tag = "Single" THEN JArr(<<JStr(m.s)>>) ELSE ser_Vec_String(m.v)

\* untagged: the content of the variant
ser_MultilineString(m) ==
    IF m.tag = "Single" THEN JStr(m.s) ELSE ser_Vec_String(m.v)

ser_CodeMirrorMode(m) ==
    IF m.tag = "String" THEN JStr(m.s) ELSE ser_Map(m.o)

ser_KernelSpec(x) ==
    JObj(Merge([name |-> ser_String(x.name),
                display_name |-> ser_String(x.display_name)],
               x.other))

ser_LanguageInfo(x) ==
    JObj(Merge([name |-> ser_String(x.name),
                codemirror_mode |-> ser_Option([i \in DOMAIN x.codemirror_mode |-> ser_CodeMirrorMode(x.codemirror_mode[i])]),
                file_extension |-> ser_Option([i \in DOMAIN x.file_extension |-> ser_String(x.file_extension[i])]),
                mimetype |-> ser_Option([i \in DOMAIN x.mimetype |-> ser_String(x.mimetype[i])]),
                pygments_lexer |-> ser_Option([i \in DOMAIN x.pygments_lexer |-> ser_String(x.pygments_lexer[i])])],
               x.other))

ser_Author(x) ==
    JObj(Merge([name |-> ser_Option([i \in DOMAIN x.name |-> ser_String(x.name[i])])], x.other))

ser_Vec_Author(v) == JArr([i \in DOMAIN v |-> ser_Author(v[i])])

ser_NotebookMetadata(x) ==
    JObj(Merge([kernelspec |-> ser_Option([i \in DOMAIN x.kernelspec |-> ser_KernelSpec(x.kernelspec[i])]),
                language_info |-> ser_Option([i \in DOMAIN x.language_info |-> ser_LanguageInfo(x.language_info[i])]),
                orig_nbformat |-> ser_Option([i \in DOMAIN x.orig_nbformat |-> ser_u8(x.orig_nbformat[i])]),
                title |-> ser_Option([i \in DOMAIN x.title |-> ser_String(x.title[i])]),
                authors |-> ser_Option([i \in DOMAIN x.authors |-> ser_Vec_Author(x.authors[i])])],
               x.other))

ser_CellMetadata(x) == JObj(x.other)

ser_MimeBundle(m) == ser_Map(m)

ser_CellAttachments(a) == JObj([k \in DOMAIN a |-> ser_MimeBundle(a[k])])

ser_RawCell(x) ==
    JObj([id |-> ser_Option([i \in DOMAIN x.id |-> ser_String(x.id[i])]),
          metadata |-> ser_CellMetadata(x.metadata),
          source |-> ser_MultilineString(x.source),
          attachments |-> ser_Option([i \in DOMAIN x.attachments |-> ser_CellAttachments(x.attachments[i])])])

ser_MarkdownCell(x) == ser_RawCell(x)

ser_OutputExecuteResult(x) ==
    JObj(Merge([execution_count |-> ser_Option([i \in DOMAIN x.execution_count |-> ser_u32(x.execution_count[i])]),
                data |-> ser_MimeBundle(x.data),
                metadata |-> ser_Map(x.metadata)],
               x.other))

ser_OutputDisplayData(x) ==
    JObj(Merge([data |-> ser_MimeBundle(x.data), metadata |-> ser_Map(x.metadata)],
               x.other))

ser_OutputStream(x) ==
    JObj(Merge([name |-> ser_String(x.name), text |-> ser_MultilineString(x.text)],
               x.other))

ser_OutputError(x) ==
    JObj(Merge([ename |-> ser_String(x.ename), evalue |-> ser_String(x.evalue),
                traceback |-> ser_Vec_String(x.traceback)],
               x.other))

ser_Output(x) ==
    LET inner == IF x.variant = "ExecuteResult" THEN ser_OutputExecuteResult(x.output)
                 ELSE IF x.variant = "DisplayData" THEN ser_OutputDisplayData(x.output)
                 ELSE IF x.variant = "Stream" THEN ser_OutputStream(x.output)
                 ELSE ser_OutputError(x.output)
    IN JObj(Merge([output_type |-> JStr(output_tag(x.variant))], inner.o))

ser_Vec_Output(v) == JArr([i \in DOMAIN v |-> ser_Output(v[i])])

ser_CodeCell(x) ==
    JObj([id |-> ser_Option([i \in DOMAIN x.id |-> ser_String(x.id[i])]),
          metadata |-> ser_CellMetadata(x.metadata),
          source |-> ser_MultilineString(x.source),
          execution_count |-> ser_Option([i \in DOMAIN x.execution_count |-> ser_u32(x.execution_count[i])]),
          outputs |-> ser_Vec_Output(x.outputs)])

ser_Cell(x) ==
    LET inner == IF x.variant = "Raw" THEN ser_RawCell(x.cell)
                 ELSE IF x.variant = "Markdown" THEN ser_MarkdownCell(x.cell)
                 ELSE ser_CodeCell(x.cell)
    IN JObj(Merge([cell_type |-> JStr(cell_tag(x.variant))], inner.o))

ser_Vec_Cell(v) == JArr([i \in DOMAIN v |-> ser_Cell(v[i])])

ser_NotebookRoot(x) ==
    JObj([metadata |-> ser_NotebookMetadata(x.metadata),
          nbformat_minor |-> ser_u8(x.nbformat_minor),
          nbformat |-> ser_u8(x.nbformat),
          cells |-> ser_Vec_Cell(x.cells)])

\* the JSON a NotebookRoot is serialized to
to_json(x) == ser_NotebookRoot(x)

(***************************************************************************)
(* The documents the codec is run on.  Every object holds only keys of the *)
(* notebook format, and any keys at all where the format has a bag of      *)
(* unrecognized fields; the values are well-typed except where a case says *)
(* otherwise (a tag that names no variant, a number too wide for its       *)
(* field, a missing required field).                                       *)
(***************************************************************************)
MaxCells == 2
MaxOutputs == 2

Custom == [custom |-> JStr("metadata")]

\* the metadata objects: each optional field absent, null or present, and
\* entries for the bag
MetadataObjs ==
    LET KernelspecChoices ==
            { EmptyObj,
              [kernelspec |-> JNull],
              [kernelspec |-> JObj([name |-> JStr("python3"), display_name |-> JStr("Python 3")])],
              [kernelspec |-> JObj([name |-> JStr("python3"), display_name |-> JStr("Python 3"),
                                    language |-> JStr("python"),
                                    env |-> JObj(EmptyObj)])],
              [kernelspec |-> JObj([name |-> JStr("python3")])] }
        LanguageInfoChoices ==
            { EmptyObj,
              [language_info |->
                  JObj([name |-> JStr("python"),
                        codemirror_mode |-> JObj([name |-> JStr("ipython"), version |-> JNum(3)]),
                        file_extension |-> JStr(".py"),
                        mimetype |-> JStr("text/x-python"),
                        pygments_lexer |-> JStr("ipython3"),
                        version |-> JStr("3.8.5"),
                        nbconvert_exporter |-> JStr("python")])],
              [language_info |->
                  JObj([name |-> JStr("python"), codemirror_mode |-> JStr("python"),
                        mimetype |-> JNull])] }
        OrigNbformatChoices ==
            { EmptyObj, [orig_nbformat |-> JNum(4)], [orig_nbformat |-> JNum(256)] }
        TitleChoices == { EmptyObj, [title |-> JStr("Example Notebook")] }
        AuthorsChoices ==
            { EmptyObj,
              [authors |-> JArr(<<JObj([name |-> JStr("Alice")]),
                                  JObj([name |-> JStr("Bob"), email |-> JStr("bob@host")])>>)],
              [authors |-> JArr(<<JObj(EmptyObj)>>)] }
        ExtraChoices ==
            { EmptyObj, Custom,
              [custom |-> JNull, widgets |-> JObj([state |-> JArr(<<JNum(1), JStr("x")>>)])] }
    IN { JObj(Merge(k, Merge(l, Merge(o, Merge(t, Merge(a, x)))))) :
           k \in KernelspecChoices, l \in LanguageInfoChoices, o \in OrigNbformatChoices,
           t \in TitleChoices, a \in AuthorsChoices, x \in ExtraChoices }

SampleMetadata ==
    JObj([kernelspec |-> JObj([name |-> JStr("python3"), display_name |-> JStr("Python 3")]),
          custom |-> JStr("metadata")])

OutputBodies ==
    [ execute_result |->
        { [data |-> JObj(EmptyObj), metadata |-> JObj(EmptyObj)],
          [execution_count |-> JNum(1),
           data |-> JObj([k \in {"text/plain"} |-> JStr("Hello, world!")]),
           metadata |-> JObj(Custom),
           transient |-> JObj(EmptyObj)] },
      display_data |->
        { [data |-> JObj([k \in {"text/plain"} |-> JStr("<Figure>")]),
           metadata |-> JObj(EmptyObj)],
          [data |-> JObj([k \in {"image/png"} |-> JStr("iVBOR")]),
           metadata |-> JObj(Custom),
           transient |-> JObj([display_id |-> JStr("d1")])] },
      stream |->
        { [name |-> JStr("stdout"), text |-> JStr("hi\n")],
          [name |-> JStr("stderr"), text |-> JArr(<<JStr("a\n"), JStr("b")>>),
           custom |-> JNull] },
      error |->
        { [ename |-> JStr("NameError"), evalue |-> JStr("x"),
           traceback |-> JArr(<<JStr("line 1"), JStr("line 2")>>)],
          [ename |-> JStr("E"), evalue |-> JStr(""), traceback |-> JArr(<<>>),
           custom |-> JStr("metadata")] } ]

OutputTags == {"execute_result", "display_data", "stream", "error"}

StreamBody == [name |-> JStr("stdout"), text |-> JStr("hi\n")]

OutputObjs ==
    UNION { { JObj(Merge([output_type |-> JStr(tag)], b)) : b \in OutputBodies[tag] } :
            tag \in OutputTags }
        \cup { JObj(Merge([output_type |-> JStr(tag)], StreamBody)) :
               tag \in {"Stream", "pyout"} }
        \cup { JObj(StreamBody) }

RawBodies ==
    { [metadata |-> JObj(EmptyObj), source |-> JStr("text")],
      [id |-> JStr("cell-1"), metadata |-> JObj(Custom),
       source |-> JArr(<<JStr("a\n"), JStr("b")>>),
       attachments |-> JObj([k \in {"img.png"} |->
                               JObj([m \in {"image/png"} |-> JStr("iVBOR")])])],
      [id |-> JNull, metadata |-> JObj(EmptyObj), source |-> JArr(<<>>),
       attachments |-> JNull] }

CodeBody(outputs) ==
    [id |-> JStr("cell-1"), metadata |-> JObj(Custom),
     source |-> JStr("print('Hello, world!')"),
     execution_count |-> JNum(1), outputs |-> JArr(outputs)]

UnrunCodeBody ==
    [metadata |-> JObj(EmptyObj), source |-> JArr(<<JStr("x = 1")>>),
     execution_count |-> JNull, outputs |-> JArr(<<>>)]

CellTags == {"raw", "markdown", "code"}

CellObjs ==
    { JObj(Merge([cell_type |-> JStr(tag)], b)) :
        tag \in {"raw", "markdown"}, b \in RawBodies }
        \cup { JObj(Merge([cell_type |-> JStr("code")], b)) :
               b \in {UnrunCodeBody,
                      CodeBody(<<JObj(Merge([output_type |-> JStr("stream")], StreamBody))>>)} }
        \cup { JObj(Merge([cell_type |-> JStr(tag)], UnrunCodeBody)) :
               tag \in {"Code", "CODE", "heading", ""} }
        \cup { JObj(Merge([cell_type |-> JStr("Raw")], b)) : b \in RawBodies }
        \cup { JObj(UnrunCodeBody), JObj(Merge([cell_type |-> JNum(1)], UnrunCodeBody)) }

Document(metadata, cells) ==
    JObj([metadata |-> metadata, nbformat_minor |-> JNum(4), nbformat |-> JNum(4),
          cells |-> JArr(cells)])

Documents ==
    { Document(m, <<>>) : m \in MetadataObjs }
        \cup { Document(SampleMetadata, cs) : cs \in SeqUpTo(CellObjs, MaxCells) }
        \cup { Document(JObj(EmptyObj), <<JObj(Merge([cell_type |-> JStr("code")], CodeBody(os)))>>) :
               os \in SeqUpTo(OutputObjs, MaxOutputs) }
        \cup { JObj([metadata |-> JObj(EmptyObj), nbformat_minor |-> JNum(4),
                     nbformat |-> JNum(256), cells |-> JArr(<<>>)]),
               JObj([metadata |-> JObj(EmptyObj), nbformat_minor |-> JNum(4),
                     nbformat |-> JNum(4)]),
               JObj([nbformat_minor |-> JNum(4), nbformat |-> JNum(4),
                     cells |-> JArr(<<>>)]) }

NotebookIdle ==
    /\ json = JNull
    /\ nb = None
    /\ out = None
    /\ nb2 = None

\* get_notebook: the contents of the file are decoded
GetNotebook ==
    /\ nb = None
    /\ nb' = Some(from_str(json))
    /\ UNCHANGED <<json, out, nb2, normVars, remoteVars, registryVars>>

\* the NotebookRoot get_notebook returned is serialized for its receiver
Serialize ==
    /\ nb # None
    /\ nb[1].ok
    /\ out = None
    /\ out' = Some(to_json(nb[1].val))
    /\ UNCHANGED <<json, nb, nb2, normVars, remoteVars, registryVars>>

\* the serialized document is decoded again
Reload ==
    /\ out # None
    /\ nb2 = None
    /\ nb2' = Some(from_str(out[1]))
    /\ UNCHANGED <<json, nb, out, normVars, remoteVars, registryVars>>

(***************************************************************************)
(* Properties of the codec.                                                *)
(***************************************************************************)
\* the cell objects of a document
CellsOf(doc) ==
    IF doc.t = "obj" /\ "cells" \in DOMAIN doc.o /\ doc.o["cells"].t = "arr"
    THEN doc.o["cells"].a ELSE <<>>

\* the string an object holds under a key, if it holds one
StringAt(obj, key) ==
    IF key \in DOMAIN obj.o /\ obj.o[key].t = "str" THEN Some(obj.o[key].s) ELSE None

\* the output objects of a cell object tagged "code"
OutputsOf(cell) ==
    IF StringAt(cell, "cell_type") = Some("code") /\ "outputs" \in DOMAIN cell.o
       /\ cell.o["outputs"].t = "arr"
    THEN cell.o["outputs"].a ELSE <<>>

UnknownTag(obj, key, tags) ==
    StringAt(obj, key) = None \/ StringAt(obj, key)[1] \notin tags

\* C1: decoding the JSON produced by encoding a decoded NotebookRoot yields a
\* value structurally equal to it, every entry of every bag included.
C1_DecodeEncodeDecode ==
    nb2 # None => nb2[1].ok /\ nb2[1].val = nb[1].val

\* a document with unrecognized fields in its metadata, kernelspec,
\* language_info and authors has been decoded, encoded and decoded again
C1_Witness ==
    /\ nb2 # None
    /\ nb2[1].ok
    /\ DOMAIN nb[1].val.metadata.other # {}
    /\ nb[1].val.metadata.kernelspec # None
    /\ DOMAIN nb[1].val.metadata.kernelspec[1].other # {}
    /\ nb[1].val.metadata.language_info # None
    /\ DOMAIN nb[1].val.metadata.language_info[1].other # {}
    /\ nb[1].val.metadata.authors # None
    /\ \E i \in DOMAIN nb[1].val.metadata.authors[1] :
          DOMAIN nb[1].val.metadata.authors[1][i].other # {}

\* C2: encoding the decoded document yields a document structurally equal to
\* the one that was decoded, also when that one omits an optional field.
C2_EncodeDecodeIsIdentity ==
    out # None => out[1] = json

BagIs(bag, src, recognized) ==
    /\ DOMAIN bag = DOMAIN src \ recognized
    /\ DOMAIN bag \cap recognized = {}
    /\ \A k \in DOMAIN bag : bag[k] = src[k]

RecognizedOutputFields(variant) ==
    {"output_type"} \cup
        (IF variant = "ExecuteResult" THEN {"execution_count", "data", "metadata"}
         ELSE IF variant = "DisplayData" THEN {"data", "metadata"}
         ELSE IF variant = "Stream" THEN {"name", "text"}
         ELSE {"ename", "evalue", "traceback"})

\* C4: after decoding, the bag of every entity that has one holds exactly the
\* source object's keys that are not recognized fields of the entity, each
\* with its value, and no recognized field name (the tag of an output counts
\* as recognized).
C4_BagsHoldTheUnrecognized ==
    (nb # None /\ nb[1].ok) =>
        LET x == nb[1].val
            m == json.o["metadata"].o
        IN /\ BagIs(x.metadata.other, m,
                    {"kernelspec", "language_info", "orig_nbformat", "title", "authors"})
           /\ x.metadata.kernelspec # None =>
                 BagIs(x.metadata.kernelspec[1].other, m["kernelspec"].o,
                       {"name", "display_name"})
           /\ x.metadata.language_info # None =>
                 BagIs(x.metadata.language_info[1].other, m["language_info"].o,
                       {"name", "codemirror_mode", "file_extension", "mimetype",
                        "pygments_lexer"})
           /\ x.metadata.authors # None =>
                 \A i \in DOMAIN x.metadata.authors[1] :
                    BagIs(x.metadata.authors[1][i].other, m["authors"].a[i].o, {"name"})
           /\ \A i \in DOMAIN x.cells :
                 /\ BagIs(x.cells[i].cell.metadata.other,
                          CellsOf(json)[i].o["metadata"].o, {})
                 /\ x.cells[i].variant = "Code" =>
                       \A k \in DOMAIN x.cells[i].cell.outputs :
                          BagIs(x.cells[i].cell.outputs[k].output.other,
                                OutputsOf(CellsOf(json)[i])[k].o,
                                RecognizedOutputFields(x.cells[i].cell.outputs[k].variant))

\* a document whose metadata, kernelspec, language_info and authors hold
\* unrecognized and recognized keys has been decoded
C4_Witness ==
    /\ nb # None
    /\ nb[1].ok
    /\ nb[1].val.metadata.title # None
    /\ DOMAIN nb[1].val.metadata.other # {}
    /\ nb[1].val.metadata.kernelspec # None
    /\ DOMAIN nb[1].val.metadata.kernelspec[1].other # {}
    /\ nb[1].val.metadata.language_info # None
    /\ DOMAIN nb[1].val.metadata.language_info[1].other # {}
    /\ nb[1].val.metadata.authors # None
    /\ \E i \in DOMAIN nb[1].val.metadata.authors[1] :
          DOMAIN nb[1].val.metadata.authors[1][i].other # {}

(***************************************************************************)
(* The remote session client.  A URL is a record of its scheme (with its   *)
(* separator), host and path; a String holding a URL is the sequence of    *)
(* those pieces, so that prefix tests and replacements act on the text.    *)
(***************************************************************************)
MaxConns == 2

KernelIds == {"abc", "http://"}

SpecNames == {"python3"}

Tokens == {"secret", "other"}

ServerUrls ==
    { [scheme |-> "https://", host |-> "host", path |-> <<"/">>],
      [scheme |-> "http://", host |-> "host", path |-> <<"/jupyter/">>],
      [scheme |-> "ftp://", host |-> "host", path |-> <<"/">>],
      [scheme |-> "mailto:", host |-> "", path |-> <<"ops@host">>] }

\* JupyterClient::new for a server_url that Url::parse accepts
new(server_url, token) == [server_url |-> server_url, token |-> token]

\* the default header of http_client: Authorization: token <token>
authorization(c) == <<"token", c.token>>

\* Url::join with a reference that starts with "/": the reference replaces
\* the path of the base; a base that cannot be a base (mailto:) is an error
url_join(base, path) ==
    IF base.scheme = "mailto:" THEN Err("url")
    ELSE Ok([base EXCEPT !.path = path])

\* Url::to_string
to_string(url) == <<url.scheme, url.host>> \o url.path

starts_with(s, prefix) == Len(s) >= 1 /\ s[1] = prefix

\* str::replace: every occurrence is replaced
replace_all(s, from, to) ==
    [i \in DOMAIN s |-> IF s[i] = from THEN to ELSE s[i]]

\* str::replacen(from, to, 1): the first occurrence is replaced
replacen(s, from, to) ==
    IF \E i \in DOMAIN s : s[i] = from
    THEN LET first == CHOOSE k \in DOMAIN s : s[k] = from /\ \A j \in 1..(k - 1) : s[j] # from
         IN [s EXCEPT ![first] = to]
    ELSE s

\* lines 33-38 of RemoteKernel::start
rewrite_scheme(ws_url) ==
    IF starts_with(ws_url, "https://")
    THEN replacen(ws_url, "https://", "wss://")
    ELSE replacen(ws_url, "http://", "ws://")

\* lines 30-38 of RemoteKernel::start
derive_ws_url(c, id) ==
    LET joined == url_join(c.server_url, <<"/api/kernels/", id, "/channels">>)
    IN IF joined.ok THEN Ok(rewrite_scheme(to_string(joined.val))) ELSE joined

(***************************************************************************)
(* HTTP.  A response is NoResponse (send() failed: no connection, or the   *)
(* HTTP client refused the URL) or a status with a body.                   *)
(***************************************************************************)
Statuses == {200, 300, 404, 500}

NoResponse == [status |-> 0, body |-> [kind |-> "none"]]

KernelInfo(id, name) == [kind |-> "info", id |-> id, name |-> name]

NullBody == [kind |-> "null"]

Garbage == [kind |-> "garbage"]

\* reqwest sends only to http and https URLs
sendable(url) == url.scheme \in {"http://", "https://"}

\* reqwest::Response::error_for_status: an error on a client error (4xx) or a
\* server error (5xx) status
is_error_status(status) == status >= 400 /\ status <= 599

\* Response::json::<KernelInfo>
json_kernel_info(body) ==
    IF body.kind = "info" THEN Ok(body) ELSE Err("body")

\* Response::json::<Option<KernelInfo>>
json_opt_kernel_info(body) ==
    IF body.kind = "null" THEN Ok(None)
    ELSE IF body.kind = "info" THEN Ok(Some(body))
    ELSE Err("body")

Request(method, url, c, body) ==
    [method |-> method, url |-> to_string(url), auth |-> authorization(c),
     body |-> body, resp |-> None]

\* the requests a call of get_api_version() sends
get_api_version_requests(c) ==
    LET url == url_join(c.server_url, <<"/api">>)
    IN IF url.ok THEN <<Request("GET", url.val, c, "")>> ELSE <<>>

\* JupyterClient::get_api_version, given the response to its request
get_api_version(c, resp) ==
    LET url == url_join(c.server_url, <<"/api">>)
    IN IF ~url.ok THEN url
       ELSE IF resp = NoResponse THEN Err("send")
       ELSE IF is_error_status(resp.status) THEN Err("status")
       ELSE IF resp.body.kind = "version" THEN Ok(resp.body.version)
       ELSE Err("body")

\* the requests a call of list_kernels() sends
list_kernels_requests(c) ==
    LET url == url_join(c.server_url, <<"/api/kernels">>)
    IN IF url.ok THEN <<Request("GET", url.val, c, "")>> ELSE <<>>

\* JupyterClient::list_kernels, given the response to its request
list_kernels(c, resp) ==
    LET url == url_join(c.server_url, <<"/api/kernels">>)
    IN IF ~url.ok THEN url
       ELSE IF resp = NoResponse THEN Err("send")
       ELSE IF is_error_status(resp.status) THEN Err("status")
       ELSE IF resp.body.kind = "list" THEN Ok(resp.body.kernels)
       ELSE Err("body")

\* the requests a call of get_kernel_by_id(kernel_id) sends
get_kernel_by_id_requests(c, kernel_id) ==
    LET url == url_join(c.server_url, <<"/api/kernels/", kernel_id>>)
    IN IF url.ok THEN <<Request("GET", url.val, c, "")>> ELSE <<>>

\* get_kernel_by_id without the check for StatusCode::NOT_FOUND
get_kernel_by_id_no_404(c, kernel_id, resp) ==
    LET url == url_join(c.server_url, <<"/api/kernels/", kernel_id>>)
    IN IF ~url.ok THEN url
       ELSE IF resp = NoResponse THEN Err("send")
       ELSE IF is_error_status(resp.status) THEN Err("status")
       ELSE json_opt_kernel_info(resp.body)

\* JupyterClient::get_kernel_by_id, given the response to its request
get_kernel_by_id(c, kernel_id, resp) ==
    LET url == url_join(c.server_url, <<"/api/kernels/", kernel_id>>)
    IN IF ~url.ok THEN url
       ELSE IF resp = NoResponse THEN Err("send")
       ELSE IF resp.status = 404 THEN Ok(None)
       ELSE IF is_error_status(resp.status) THEN Err("status")
       ELSE json_opt_kernel_info(resp.body)

\* create_kernel sending its request again
create_kernel_requests_retried(c, spec_name) ==
    LET url == url_join(c.server_url, <<"/api/kernels">>)
    IN IF url.ok THEN <<Request("POST", url.val, c, spec_name),
                        Request("POST", url.val, c, spec_name)>>
       ELSE <<>>

\* the requests a call of create_kernel(spec_name) sends
create_kernel_requests(c, spec_name) ==
    LET url == url_join(c.server_url, <<"/api/kernels">>)
    IN IF url.ok THEN <<Request("POST", url.val, c, spec_name)>> ELSE <<>>

\* JupyterClient::create_kernel, given the response to its request
create_kernel(c, spec_name, resp) ==
    LET url == url_join(c.server_url, <<"/api/kernels">>)
    IN IF ~url.ok THEN url
       ELSE IF resp = NoResponse THEN Err("send")
       ELSE IF is_error_status(resp.status) THEN Err("status")
       ELSE json_kernel_info(resp.body)

\* the requests a call of kill_kernel(kernel_id) sends
kill_kernel_requests(c, kernel_id) ==
    LET url == url_join(c.server_url, <<"/api/kernels/", kernel_id>>)
    IN IF url.ok THEN <<Request("DELETE", url.val, c, "")>> ELSE <<>>

\* kill_kernel without error_for_status
kill_kernel_unchecked(c, kernel_id, resp) ==
    LET url == url_join(c.server_url, <<"/api/kernels/", kernel_id>>)
    IN IF ~url.ok THEN url
       ELSE IF resp = NoResponse THEN Err("send")
       ELSE Ok(<<>>)

\* JupyterClient::kill_kernel, given the response to its request
kill_kernel(c, kernel_id, resp) ==
    LET url == url_join(c.server_url, <<"/api/kernels/", kernel_id>>)
    IN IF ~url.ok THEN url
       ELSE IF resp = NoResponse THEN Err("send")
       ELSE IF is_error_status(resp.status) THEN Err("status")
       ELSE Ok(<<>>)

(***************************************************************************)
(* The server, as far as the client sees it: it answers a request with any *)
(* status and body, or not at all; it creates a kernel when it answers a   *)
(* POST with a 2xx status and the new kernel's info, and deletes one when  *)
(* it answers a DELETE with a 2xx status.                                  *)
(***************************************************************************)
is_success(status) == status >= 200 /\ status <= 299

Responses(reqs, bodies) ==
    IF reqs = <<>> \/ reqs[1].url[1] \notin {"http://", "https://"}
    THEN {NoResponse}
    ELSE {NoResponse} \cup [status : Statuses, body : bodies]

answered(reqs, resp) ==
    IF reqs = <<>> THEN reqs ELSE [reqs EXCEPT ![Len(reqs)].resp = Some(resp)]

IdleTask ==
    [pc |-> "idle", spec_name |-> "", kernel_info |-> None, ws_url |-> None]

NoCall == [op |-> "none", result |-> None]

RemoteIdle ==
    /\ client = new(CHOOSE u \in ServerUrls : u.scheme = "https://", "secret")
    /\ server = {}
    /\ requests = <<>>
    /\ opens = <<>>
    /\ task = IdleTask
    /\ handles = {}
    /\ conns = <<>>
    /\ last = NoCall

\* RemoteKernel::start up to its first await: create_kernel sends its
\* request, or returns the error of join, which start returns
StartCall(spec_name) ==
    /\ task.pc = "idle"
    /\ Len(conns) < MaxConns
    /\ requests' = create_kernel_requests(client, spec_name)
    /\ opens' = <<>>
    /\ IF create_kernel_requests(client, spec_name) = <<>>
       THEN /\ task' = IdleTask
            /\ last' = [op |-> "start",
                        result |-> Some(create_kernel(client, spec_name, NoResponse))]
       ELSE /\ task' = [IdleTask EXCEPT !.pc = "create", !.spec_name = spec_name]
            /\ last' = [op |-> "start", result |-> None]
    /\ UNCHANGED <<client, server, handles, conns, normVars, nbVars, registryVars>>

\* RemoteKernel::start from the answer to create_kernel to its second await:
\* the `?` on create_kernel, the derivation of ws_url, and the call of
\* create_websocket_connection
StartCreated(resp) ==
    /\ task.pc = "create"
    /\ LET r == create_kernel(client, task.spec_name, resp)
           u == derive_ws_url(client, r.val.id)
       IN /\ requests' = answered(requests, resp)
          /\ server' = IF is_success(resp.status) /\ resp.body.kind = "info"
                       THEN server \cup {resp.body.id} ELSE server
          /\ IF ~r.ok
             THEN /\ task' = IdleTask
                  /\ last' = [op |-> "start", result |-> Some(r)]
                  /\ opens' = opens
             ELSE IF ~u.ok
             THEN /\ task' = IdleTask
                  /\ last' = [op |-> "start", result |-> Some(u)]
                  /\ opens' = opens
             ELSE /\ task' = [task EXCEPT !.pc = "connect",
                                          !.kernel_info = Some(r.val),
                                          !.ws_url = Some(u.val)]
                  /\ last' = last
                  /\ opens' = Append(opens, [url |-> u.val, token |-> client.token,
                                             outcome |-> None])
    /\ UNCHANGED <<client, handles, conns, normVars, nbVars, registryVars>>

\* lines 40-46 of RemoteKernel::start, with the handle holding the name of
\* the kernel's spec for its id
start_finish_with_name(c, kernel_info, conn) ==
    IF ~conn.ok THEN conn
    ELSE Ok([client |-> c, kernel_id |-> kernel_info.name, conn |-> conn.val])

\* lines 40-46 of RemoteKernel::start: the `?` on the connection, and the
\* handle of the client, the id of kernel_info and the connection
start_finish(c, kernel_info, conn) ==
    IF ~conn.ok THEN conn
    ELSE Ok([client |-> c, kernel_id |-> kernel_info.id, conn |-> conn.val])

\* start deleting the kernel it created when the connection is refused
StartConnectedCompensating(outcome) ==
    /\ task.pc = "connect"
    /\ opens' = [opens EXCEPT ![Len(opens)].outcome = Some(outcome)]
    /\ LET conn == IF outcome = "open" THEN Ok(Len(conns) + 1) ELSE Err("connect")
           r == start_finish(client, task.kernel_info[1], conn)
       IN /\ last' = [op |-> "start", result |-> Some(r)]
          /\ conns' = IF conn.ok THEN Append(conns, "open") ELSE conns
          /\ handles' = IF r.ok THEN handles \cup {r.val} ELSE handles
          /\ requests' = IF r.ok THEN requests
                         ELSE requests \o answered(kill_kernel_requests(client, task.kernel_info[1].id),
                                                   [status |-> 200, body |-> NullBody])
          /\ server' = IF r.ok THEN server ELSE server \ {task.kernel_info[1].id}
    /\ task' = IdleTask
    /\ UNCHANGED <<client, normVars, nbVars, registryVars>>

\* RemoteKernel::start from the outcome of create_websocket_connection to its
\* return
StartConnected(outcome) ==
    /\ task.pc = "connect"
    /\ opens' = [opens EXCEPT ![Len(opens)].outcome = Some(outcome)]
    /\ LET conn == IF outcome = "open" THEN Ok(Len(conns) + 1) ELSE Err("connect")
           r == start_finish(client, task.kernel_info[1], conn)
       IN /\ last' = [op |-> "start", result |-> Some(r)]
          /\ conns' = IF conn.ok THEN Append(conns, "open") ELSE conns
          /\ handles' = IF r.ok THEN handles \cup {r.val} ELSE handles
    /\ task' = IdleTask
    /\ UNCHANGED <<client, server, requests, normVars, nbVars, registryVars>>

\* a call of JupyterClient::get_api_version and the server's answer
GetApiVersion(resp) ==
    /\ task.pc = "idle"
    /\ requests' = answered(get_api_version_requests(client), resp)
    /\ opens' = <<>>
    /\ last' = [op |-> "get_api_version", result |-> Some(get_api_version(client, resp))]
    /\ UNCHANGED <<client, server, task, handles, conns, normVars, nbVars, registryVars>>

\* a call of JupyterClient::list_kernels and the server's answer
ListKernels(resp) ==
    /\ task.pc = "idle"
    /\ requests' = answered(list_kernels_requests(client), resp)
    /\ opens' = <<>>
    /\ last' = [op |-> "list_kernels", result |-> Some(list_kernels(client, resp))]
    /\ UNCHANGED <<client, server, task, handles, conns, normVars, nbVars, registryVars>>

\* a call of JupyterClient::get_kernel_by_id and the server's answer
GetKernelById(kernel_id, resp) ==
    /\ task.pc = "idle"
    /\ requests' = answered(get_kernel_by_id_requests(client, kernel_id), resp)
    /\ opens' = <<>>
    /\ last' = [op |-> "get_kernel_by_id",
                result |-> Some(get_kernel_by_id(client, kernel_id, resp))]
    /\ UNCHANGED <<client, server, task, handles, conns, normVars, nbVars, registryVars>>

\* RemoteKernel::kill(self)
kill(self, resp) == kill_kernel(self.client, self.kernel_id, resp)

\* the requests a call of RemoteKernel::kill(self) sends
kill_requests(self) == kill_kernel_requests(self.client, self.kernel_id)

\* a call of RemoteKernel::kill on a handle the caller holds, and the
\* server's answer; the call consumes the handle
Kill(self, resp) ==
    /\ task.pc = "idle"
    /\ self \in handles
    /\ handles' = handles \ {self}
    /\ requests' = answered(kill_requests(self), resp)
    /\ opens' = <<>>
    /\ server' = IF is_success(resp.status) THEN server \ {self.kernel_id} ELSE server
    /\ last' = [op |-> "kill", result |-> Some(kill(self, resp))]
    /\ UNCHANGED <<client, task, conns, normVars, nbVars, registryVars>>

\* the channel of a session is torn down by its peer or by its own lifecycle
ChannelClosed(c) ==
    /\ c \in DOMAIN conns
    /\ conns[c] = "open"
    /\ conns' = [conns EXCEPT ![c] = "closed"]
    /\ UNCHANGED <<client, server, requests, opens, task, handles, last, normVars, nbVars, registryVars>>

CreateBodies == {KernelInfo(id, "python3") : id \in KernelIds \ server} \cup {NullBody, Garbage}

\* a client for each of the server URLs, the tokens shared out among them
RemoteInit ==
    /\ client \in {c \in {new(u, t) : u \in ServerUrls, t \in Tokens} :
                      c.token = "secret" <=> c.server_url.scheme \in {"https://", "ftp://"}}
    /\ server = {}
    /\ requests = <<>>
    /\ opens = <<>>
    /\ task = IdleTask
    /\ handles = {}
    /\ conns = <<>>
    /\ last = NoCall

Next ==
    \/ \E spec_name \in SpecNames : StartCall(spec_name)
    \/ \E resp \in Responses(requests, CreateBodies) : StartCreated(resp)
    \/ \E outcome \in {"open", "refused"} : StartConnected(outcome)
    \/ \E resp \in Responses(get_api_version_requests(client),
                            {[kind |-> "version", version |-> "2.14"], Garbage}) :
          GetApiVersion(resp)
    \/ \E resp \in Responses(list_kernels_requests(client),
                            {[kind |-> "list", kernels |-> <<KernelInfo("abc", "python3")>>],
                             Garbage}) :
          ListKernels(resp)
    \/ \E kernel_id \in KernelIds :
          \E resp \in Responses(get_kernel_by_id_requests(client, kernel_id),
                                {KernelInfo(kernel_id, "python3"), NullBody, Garbage}) :
             GetKernelById(kernel_id, resp)
    \/ \E self \in handles :
          \E resp \in Responses(kill_requests(self), {NullBody}) : Kill(self, resp)
    \/ \E c \in DOMAIN conns : ChannelClosed(c)

(***************************************************************************)
(* Properties of the remote session client.                                *)
(***************************************************************************)
\* the answer to the request of the call, when there is one
Answered == requests # <<>> /\ requests[1].resp # None /\ requests[1].resp[1] # NoResponse

Answer == requests[1].resp[1]

ClientOrServerError(status) == status >= 400 /\ status <= 599

\* C7 as stated: Ok(None) exactly when the server responds 404; an error for
\* every other non-2xx status; the kernel info for a 2xx status with a
\* well-formed body.
C7_NotFoundExactlyOn404 ==
    (last.op = "get_kernel_by_id" /\ Answered) =>
        LET r == last.result[1]
        IN /\ (r.ok /\ r.val = None) <=> Answer.status = 404
           /\ (Answer.status # 404 /\ ~is_success(Answer.status)) => ~r.ok
           /\ (is_success(Answer.status) /\ Answer.body.kind = "info")
                 => (r.ok /\ r.val = Some(Answer.body))

\* C7, amended: Ok(None) exactly when the server responds 404, or responds
\* with a status that is no client or server error and the body null; an
\* error for every other 4xx or 5xx status; the kernel info for a status that
\* is no client or server error with a well-formed body.
C7_NotFoundOn404OrNullBody ==
    (last.op = "get_kernel_by_id" /\ Answered) =>
        LET r == last.result[1]
        IN /\ (r.ok /\ r.val = None) <=>
                 \/ Answer.status = 404
                 \/ ~ClientOrServerError(Answer.status) /\ Answer.body.kind = "null"
           /\ (Answer.status # 404 /\ ClientOrServerError(Answer.status)) => ~r.ok
           /\ (~ClientOrServerError(Answer.status) /\ Answer.body.kind = "info")
                 => (r.ok /\ r.val = Some(Answer.body))

\* the server has answered 404 and the call has returned Ok(None)
C7_Witness ==
    /\ last.op = "get_kernel_by_id"
    /\ Answered
    /\ Answer.status = 404
    /\ last.result[1].ok
    /\ last.result[1].val = None

WsScheme(scheme) == IF scheme = "https://" THEN "wss://" ELSE "ws://"

\* C8: start opens the channel at the server URL joined with
\* /api/kernels/K/channels, K the id create_kernel returned, its scheme
\* rewritten https -> wss or http -> ws and nothing else replaced, and with
\* the token the client's REST requests carry.
C8_TransportUrlAndToken ==
    \A i \in DOMAIN opens :
        /\ Answered
        /\ Answer.body.kind = "info"
        /\ client.server_url.scheme \in {"https://", "http://"}
        /\ opens[i].url = <<WsScheme(client.server_url.scheme), client.server_url.host,
                            "/api/kernels/", Answer.body.id, "/channels">>
        /\ opens[i].token = client.token
        /\ requests[1].auth = <<"token", opens[i].token>>

\* created kernel "abc" at https://host with token "secret": the channel
\* has been opened
C8_Witness ==
    /\ opens # <<>>
    /\ opens[1].outcome = Some("open")
    /\ client.server_url.scheme = "https://"
    /\ client.token = "secret"
    /\ Answer.body.id = "abc"

CreateErrors == {"url", "send", "status", "body"}

\* what holds while start runs and once it has returned
StartInOrder ==
    /\ task.pc = "create" =>
          /\ opens = <<>>
          /\ \A i \in DOMAIN requests :
                requests[i].method = "POST" /\ requests[i].resp = None
    /\ opens # <<>> =>
          /\ Len(requests) = 1
          /\ requests[1].method = "POST"
          /\ Answered
          /\ Answer.body.kind = "info"
          /\ Len(opens) = 1
    /\ task.pc = "connect" => (opens # <<>> /\ opens[1].outcome = None)
    /\ (last.op = "start" /\ last.result # None) =>
          LET r == last.result[1]
          IN /\ task.pc = "idle"
             /\ (~r.ok /\ r.err \in CreateErrors) => opens = <<>>
             /\ (~r.ok /\ r.err \notin CreateErrors) =>
                   (r.err = "connect" /\ opens # <<>> /\ opens[1].outcome = Some("refused"))
             /\ r.ok =>
                   /\ opens # <<>>
                   /\ opens[1].outcome = Some("open")
                   /\ r.val.kernel_id = Answer.body.id
                   /\ r.val.client = client
                   /\ r.val.conn = Len(conns)
                   /\ r.val \in handles

\* the step in which start returns
StartReturns ==
    (task.pc # "idle" /\ task'.pc = "idle") =>
        /\ last'.op = "start"
        /\ last'.result # None
        /\ IF last'.result[1].ok
           THEN /\ handles' = handles \cup {last'.result[1].val}
                /\ last'.result[1].val \notin handles
                /\ conns' = Append(conns, "open")
           ELSE /\ handles' = handles
                /\ conns' = conns

\* C9: start performs create-kernel, then the derivation of the URL, then
\* the channel-open; a failure at a step is returned, no later step is
\* attempted and no handle is returned; a handle is returned only when every
\* step succeeded, and then it holds the id create-kernel returned and the
\* opened channel.
C9_StartAllOrNothing == [](StartInOrder) /\ [][StartReturns]_vars

\* the kernel was created and the channel refused: start has returned the
\* connect error and the caller holds no handle
C9_Witness ==
    /\ last.op = "start"
    /\ last.result # None
    /\ ~last.result[1].ok
    /\ last.result[1].err = "connect"
    /\ Answered
    /\ Answer.body.kind = "info"
    /\ Answer.body.id \in server
    /\ handles = {}

\* a step that consumes a handle is a kill of it: one DELETE for the id of
\* the handle through the client of the handle, an error returned on the
\* statuses of errs, and the channels as they were
KillEffect(errs) ==
    (handles' # handles /\ handles' \subseteq handles) =>
        \E self \in handles :
            /\ handles' = handles \ {self}
            /\ last'.op = "kill"
            /\ Len(requests') = 1
            /\ requests'[1].method = "DELETE"
            /\ requests'[1].url = <<self.client.server_url.scheme,
                                    self.client.server_url.host,
                                    "/api/kernels/", self.kernel_id>>
            /\ requests'[1].auth = <<"token", self.client.token>>
            /\ requests'[1].resp # None
            /\ requests'[1].resp[1].status \in errs => ~last'.result[1].ok
            /\ opens' = <<>>
            /\ conns' = conns

\* C10 as stated: kill consumes the handle and issues one DELETE for its
\* session id through its client, returns an error on any non-2xx response,
\* and leaves the channel as it was.
C10_KillErrsOnNon2xx ==
    [][KillEffect({status \in Statuses : ~is_success(status)})]_vars

\* C10, amended: kill consumes the handle and issues one DELETE for its
\* session id through its client, returns an error on any 4xx or 5xx
\* response, and leaves the channel as it was.
C10_KillErrsOn4xx5xx ==
    [][KillEffect({status \in Statuses : ClientOrServerError(status)})]_vars

\* a handle with an open channel has been killed, the server answered 500 and
\* the channel is still open
C10_Witness ==
    /\ last.op = "kill"
    /\ Answered
    /\ Answer.status = 500
    /\ ~last.result[1].ok
    /\ \E c \in DOMAIN conns : conns[c] = "open"
    /\ handles = {}

\* the HTTP method of the request each operation sends
MethodOf(op) ==
    IF op = "start" THEN "POST" ELSE IF op = "kill" THEN "DELETE" ELSE "GET"

\* the request of the call was sent and was not answered, or was answered
\* with a client or server error
RequestFailed ==
    /\ requests # <<>>
    /\ requests[1].resp # None
    /\ \/ requests[1].resp[1] = NoResponse
       \/ ClientOrServerError(requests[1].resp[1].status)

\* what every call has done, with counts the numbers of requests a call may
\* have sent: the requests are of the method of the
\* operation, only start opens a channel and it tries at most once, and a
\* failed request or a refused channel is the end of the call, with the error
\* returned (or the "not found" of get_kernel_by_id)
NoRetry(counts) ==
    last.op # "none" =>
        /\ Len(requests) \in counts
        /\ \A i \in DOMAIN requests : requests[i].method = MethodOf(last.op)
        /\ Len(opens) <= 1
        /\ last.op # "start" => (opens = <<>> /\ last.result # None)
        /\ RequestFailed =>
              /\ opens = <<>>
              /\ task.pc = "idle"
              /\ last.result # None
              /\ last.result[1].ok =>
                    (last.op = "get_kernel_by_id" /\ requests[1].resp[1].status = 404)
        /\ (opens # <<>> /\ opens[1].outcome = Some("refused")) =>
              /\ task.pc = "idle"
              /\ last.result = Some(Err("connect"))

\* one request, and none when the URL of the request cannot be built from
\* the server's
OneIfUrl == IF url_join(client.server_url, <<"/api">>).ok THEN {1} ELSE {0}

\* C11 as stated: no operation retries: each of get_api_version,
\* list_kernels, get_kernel_by_id, create_kernel and kill_kernel sends exactly
\* one HTTP request per call, start makes at most one create request and at
\* most one channel-open attempt, and a failed request or channel-open is
\* returned at once without a further attempt.
C11_ExactlyOneRequestPerCall == NoRetry({1})

\* C11, amended: each operation sends at most one HTTP request per call:
\* exactly one when the URL of the request can be built from the server URL,
\* and none (the URL error is returned) when it cannot; start makes at most
\* one create request and at most one channel-open attempt, and a failed
\* request or channel-open is returned at once without a further attempt.
C11_AtMostOneRequestPerCall == NoRetry(OneIfUrl)

\* get_api_version got no response: the error has been returned after the one
\* request
C11_Witness ==
    /\ last.op = "get_api_version"
    /\ Len(requests) = 1
    /\ requests[1].resp = Some(NoResponse)
    /\ last.result = Some(Err("send"))

\* the channel of the start that ran last was refused
OpenRefused ==
    /\ last.op = "start"
    /\ opens # <<>>
    /\ opens[1].outcome = Some("refused")

\* start has returned the connect error without a DELETE, and the kernel it
\* created (the server creates it when it answers the POST with a 2xx status)
\* is on the server
Orphaned ==
    OpenRefused =>
        /\ last.result = Some(Err("connect"))
        /\ \A i \in DOMAIN requests : requests[i].method # "DELETE"
        /\ Answered
        /\ Answer.body.kind = "info"
        /\ is_success(Answer.status) => Answer.body.id \in server

\* the step in which the channel is refused sends nothing, deletes nothing
\* and hands no handle to the caller
RefusalDeletesNothing ==
    (task.pc = "connect" /\ task'.pc = "idle" /\ ~last'.result[1].ok) =>
        /\ requests' = requests
        /\ server' = server
        /\ handles' = handles

\* C12: when create-kernel succeeds and the channel-open then fails, start
\* issues no DELETE: it returns the connect error while the kernel it created
\* still exists on the server and the caller holds no handle for it.
C12_NoCompensatingDelete == [](Orphaned) /\ [][RefusalDeletesNothing]_vars

\* kernel "abc" was created by a POST answered 200 and its channel refused:
\* "abc" is on the server and only the POST was sent
C12_Witness ==
    /\ OpenRefused
    /\ Len(requests) = 1
    /\ requests[1].method = "POST"
    /\ Answer.status = 200
    /\ Answer.body.id = "abc"
    /\ "abc" \in server
    /\ \A h \in handles : h.kernel_id # "abc"

(***************************************************************************)
(* The registry of kernels and stop_kernel.  A kernel is known by its id,  *)
(* the number start_kernel started it as: no two kernels share an id.      *)
(* Callers run stop_kernel concurrently; a call is the removal from the    *)
(* registry, which DashMap does in one step, and then the await of kill.   *)
(***************************************************************************)
MaxKernels == 2
MaxCallers == 2

IdleStop == [pc |-> "idle", kernel_id |-> 0, kernel |-> None, result |-> None]

RegistryIdle ==
    /\ kernels = {}
    /\ started = 0
    /\ stops = [t \in 1..MaxCallers |-> IdleStop]
    /\ kills = [k \in 1..MaxKernels |-> 0]

\* the entry read and left in the map, as DashMap::get would
remove_keeping_entry(map, key) ==
    [map |-> map, removed |-> IF key \in map THEN Some(key) ELSE None]

\* DashMap::remove: the entry of the key is taken out of the map and
\* returned, or None when the map has no such entry
remove(map, key) ==
    [map |-> map \ {key}, removed |-> IF key \in map THEN Some(key) ELSE None]

\* start_kernel, line 69: the kernel it started is inserted under its id
StartKernel ==
    /\ started < MaxKernels
    /\ started' = started + 1
    /\ kernels' = kernels \cup {started + 1}
    /\ UNCHANGED <<stops, kills, normVars, nbVars, remoteVars>>

\* stop_kernel up to its await: the entry is removed, and the call returns
\* KernelDisconnect when there was none, or else calls kill on the kernel
StopKernel(t, kernel_id) ==
    /\ stops[t].pc = "idle"
    /\ LET r == remove(kernels, kernel_id)
       IN /\ kernels' = r.map
          /\ IF r.removed = None
             THEN /\ stops' = [stops EXCEPT ![t] =
                                 [IdleStop EXCEPT !.kernel_id = kernel_id,
                                                  !.result = Some(Err("KernelDisconnect"))]]
                  /\ kills' = kills
             ELSE /\ stops' = [stops EXCEPT ![t] =
                                 [IdleStop EXCEPT !.pc = "kill",
                                                  !.kernel_id = kernel_id,
                                                  !.kernel = r.removed]]
                  /\ kills' = [kills EXCEPT ![r.removed[1]] = @ + 1]
    /\ UNCHANGED <<started, normVars, nbVars, remoteVars>>

\* stop_kernel from the return of kill: its error, or Ok(())
StopKernelKilled(t, outcome) ==
    /\ stops[t].pc = "kill"
    /\ stops' = [stops EXCEPT ![t].pc = "idle",
                              ![t].result = Some(IF outcome = "ok" THEN Ok(<<>>)
                                                 ELSE Err("kill"))]
    /\ UNCHANGED <<kernels, started, kills, normVars, nbVars, remoteVars>>

RegistryNext ==
    \/ StartKernel
    \/ \E t \in 1..MaxCallers : \E kernel_id \in 1..MaxKernels : StopKernel(t, kernel_id)
    \/ \E t \in 1..MaxCallers : \E outcome \in {"ok", "failed"} : StopKernelKilled(t, outcome)

(***************************************************************************)
(* Properties of stop_kernel.                                              *)
(***************************************************************************)
\* the call of caller t has returned KernelDisconnect
Disconnected(stop) == stop.pc = "idle" /\ stop.result = Some(Err("KernelDisconnect"))

\* kill is called at most once on a kernel, by the call that obtained it; a
\* call that returned KernelDisconnect obtained none; a call that found the
\* entry has taken it out of the registry, during kill and once it returned
OneStopObtains ==
    /\ \A k \in 1..MaxKernels :
          /\ kills[k] <= 1
          /\ Cardinality({t \in 1..MaxCallers : stops[t].kernel = Some(k)
                                                /\ stops[t].pc = "kill"}) <= 1
    /\ \A t \in 1..MaxCallers :
          /\ Disconnected(stops[t]) => stops[t].kernel = None
          /\ stops[t].kernel # None =>
                /\ stops[t].kernel[1] = stops[t].kernel_id
                /\ stops[t].kernel_id \notin kernels
                /\ kills[stops[t].kernel_id] = 1

\* a step of stop_kernel calls kill exactly when it found the entry, and
\* leaves the registry as it was when it found none
StopFindsOrLeaves ==
    \A t \in 1..MaxCallers :
        (stops[t].pc = "idle" /\ stops'[t] # stops[t]) =>
            IF stops'[t].kernel_id \in kernels
            THEN /\ stops'[t].pc = "kill"
                 /\ kernels' = kernels \ {stops'[t].kernel_id}
                 /\ kills'[stops'[t].kernel_id] = kills[stops'[t].kernel_id] + 1
            ELSE /\ Disconnected(stops'[t])
                 /\ kernels' = kernels
                 /\ kills' = kills

\* C13: stop_kernel removes the entry of the id from the registry in one
\* step before it calls kill: of concurrent calls for one id at most one
\* obtains the kernel and calls kill, the others return KernelDisconnect
\* without calling kill; a call for an id that is not registered leaves the
\* registry unchanged; and once a call that found the entry has returned,
\* with the result of kill whatever it is, the id is not in the registry.
C13_StopKernelRemovesOnce == [](OneStopObtains) /\ [][StopFindsOrLeaves]_vars

\* two callers stopped kernel 1: one obtained it and returned the error of
\* kill, the other returned KernelDisconnect, and kill was called once
C13_Witness ==
    /\ stops[1].pc = "idle"
    /\ stops[1].kernel = Some(1)
    /\ stops[1].result = Some(Err("kill"))
    /\ stops[2].kernel_id = 1
    /\ Disconnected(stops[2])
    /\ kills[1] = 1
    /\ 1 \notin kernels

(***************************************************************************)
(* The specifications.                                                     *)
(***************************************************************************)
NormalizeInit ==
    /\ ms \in MultilineStrings
    /\ norm = None
    /\ norm2 = None
    /\ asString = None
    /\ NotebookIdle
    /\ RemoteIdle
    /\ RegistryIdle

NormalizeNext ==
    \/ Normalize
    \/ NormalizeAgain
    \/ IntoString

SpecNormalize == NormalizeInit /\ [][NormalizeNext]_vars

NotebookInit ==
    /\ json \in Documents
    /\ nb = None
    /\ out = None
    /\ nb2 = None
    /\ NormalizeIdle
    /\ RemoteIdle
    /\ RegistryIdle

NotebookNext ==
    \/ GetNotebook
    \/ Serialize
    \/ Reload

SpecNotebook == NotebookInit /\ [][NotebookNext]_vars

Init ==
    /\ RemoteInit
    /\ NormalizeIdle
    /\ NotebookIdle
    /\ RegistryIdle

Spec == Init /\ [][Next]_vars

RegistryInit ==
    /\ RegistryIdle
    /\ NormalizeIdle
    /\ NotebookIdle
    /\ RemoteIdle

SpecRegistry == RegistryInit /\ [][RegistryNext]_vars

====
